---------------------------- MODULE Spec2Model ----------------------------
(***************************************************************************)
(* The streaming executor of ray.data: the control loop thread             *)
(* (StreamingExecutor.run / _scheduling_loop_step), the pull side           *)
(* (StreamIterator.get_next), shutdown(), and topology validation.          *)
(*                                                                         *)
(* The topology is a chain of operators 1..NumOps; operator NumOps is the   *)
(* sink (the output node).  The operator state machinery                   *)
(* (streaming_executor_state.py) and the resource arithmetic               *)
(* (interfaces.py) follow the design specification, sections 3 and          *)
(* 4.1 to 4.3.                                                             *)
(***************************************************************************)
EXTENDS Integers, Sequences, FiniteSets, TLC

\* ------------------------------------------------------------------ bounds
NumOps == 3
NumInputs == 3
MaxShutdownCalls == 1
MaxPullFailures == 1
ScenarioInputs == 4
EnvWorkers == 2
MaxEnvCalls == 4

\* Python's None, for an unset resource dimension or a missing cluster key.
None == -1

Ops == 1..NumOps
Sink == NumOps

\* ---------------------------------------------------------- resource model
\* ExecutionResources: cpu, gpu, object_store_memory, each a number or None.
Res(c, g, m) == [cpu |-> c, gpu |-> g, mem |-> m]

OrZero(x) == IF x = None THEN 0 ELSE x

AddDim(a, b) == IF a = None /\ b = None THEN None ELSE OrZero(a) + OrZero(b)

\* ExecutionResources.add: component-wise sum.
Add(a, b) == Res(AddDim(a.cpu, b.cpu), AddDim(a.gpu, b.gpu), AddDim(a.mem, b.mem))

\* ExecutionResources.satisfies_limit: every dimension present in the limit
\* bounds the usage; dimensions absent from the limit are unconstrained.
SatisfiesLimit(u, l) ==
    /\ (l.cpu # None => OrZero(u.cpu) <= l.cpu)
    /\ (l.gpu # None => OrZero(u.gpu) <= l.gpu)
    /\ (l.mem # None => OrZero(u.mem) <= l.mem)

\* Python truthiness of an optional number: None and 0 are falsy.
Truthy(x) == x # None /\ x # 0

\* ------------------------------------------------------ limits (230-245)
ClusterGet(v) == IF v = None THEN 0 ELSE v

\* A faulty variant: "base.cpu or cluster..." takes an explicit 0 for unset.
GetOrRefreshResourceLimitsTruthy(base, clu) ==
    Res(IF Truthy(base.cpu) THEN base.cpu ELSE ClusterGet(clu.CPU),
        IF Truthy(base.gpu) THEN base.gpu ELSE ClusterGet(clu.GPU),
        IF Truthy(base.mem) THEN base.mem
                            ELSE ClusterGet(clu.object_store_memory) \div 4)

GetOrRefreshResourceLimits(base, clu) ==
    Res(IF base.cpu # None THEN base.cpu ELSE ClusterGet(clu.CPU),
        IF base.gpu # None THEN base.gpu ELSE ClusterGet(clu.GPU),
        IF base.mem # None THEN base.mem
                           ELSE ClusterGet(clu.object_store_memory) \div 4)

\* ---------------------------------------------------- validation (264-293)
\* The operators of a topology t, as a function Ops -> [base, inc].
\* A faulty variant: the control overhead forgotten.
NoControlOverhead == Res(None, None, None)

\* base_usage = ExecutionResources(cpu=1) (275)
ControlOverhead == Res(1, None, None)

RECURSIVE BaseUsageUpTo(_, _)
BaseUsageUpTo(t, n) ==
    IF n = 0 THEN ControlOverhead
    ELSE Add(BaseUsageUpTo(t, n - 1), t[n].base)

\* Faulty variants: one of the two checks missing.
UnsupportedIncNoCpuAndGpu(inc) == IF Truthy(inc.mem) THEN "memory" ELSE "ok"
UnsupportedIncNoMemory(inc) ==
    IF Truthy(inc.cpu) /\ Truthy(inc.gpu) THEN "cpu_and_gpu" ELSE "ok"

UnsupportedInc(inc) ==
    IF Truthy(inc.cpu) /\ Truthy(inc.gpu) THEN "cpu_and_gpu"
    ELSE IF Truthy(inc.mem) THEN "memory"
    ELSE "ok"

\* The first operator, in topology order, with an unsupported incremental
\* usage; 0 when there is none.
RECURSIVE FirstUnsupported(_, _)
FirstUnsupported(t, n) ==
    IF n > NumOps THEN 0
    ELSE IF UnsupportedInc(t[n].inc) # "ok" THEN n
    ELSE FirstUnsupported(t, n + 1)

\* A faulty variant: the base usage is compared with the limits before the
\* operators' incremental usages are looked at.
ValidateTopologyLimitsFirst(t, lim) ==
    LET bad == FirstUnsupported(t, 1) IN
    IF ~SatisfiesLimit(BaseUsageUpTo(t, NumOps), lim)
    THEN [err |-> "ValueError", why |-> "limits"]
    ELSE IF bad # 0
         THEN [err |-> "NotImplementedError", why |-> UnsupportedInc(t[bad].inc)]
    ELSE [err |-> "ok", why |-> "ok"]

\* _validate_topology (264-293): the loop over the operators raises at the
\* first unsupported incremental usage; the limits are compared after it.
ValidateTopology(t, lim) ==
    LET bad == FirstUnsupported(t, 1) IN
    IF bad # 0 THEN [err |-> "NotImplementedError", why |-> UnsupportedInc(t[bad].inc)]
    ELSE IF ~SatisfiesLimit(BaseUsageUpTo(t, NumOps), lim)
         THEN [err |-> "ValueError", why |-> "limits"]
    ELSE [err |-> "ok", why |-> "ok"]


\* ------------------------------------------------------------ sink items
Bundle(n) == [kind |-> "Bundle", v |-> n]
ErrorItem(e) == [kind |-> "Error", v |-> e]
EndOfStream == [kind |-> "EOS", v |-> 0]

RECURSIVE CountKind(_, _)
CountKind(q, k) ==
    IF q = << >> THEN 0
    ELSE (IF Head(q).kind = k THEN 1 ELSE 0) + CountKind(Tail(q), k)

\* The Bundles of a sequence of items, in order.
BundlesOf(q) == SelectSeq(q, LAMBDA x : x.kind = "Bundle")

\* Bundles numbered first..first+n-1, the outputs of n completed sink tasks.
NewBundles(first, n) == [k \in 1..n |-> Bundle(first + k - 1)]

\* --------------------------------------------- topology state (modelled)
VARIABLES
    topo,          \* Ops -> [base, inc]: the operators' declared usages
    userLimits,    \* options.resource_limits (dimensions may be None)
    cluster,       \* what ray.cluster_resources() reports now
    execState,     \* "new" | "started" | "failed"
    validated,     \* execute(): the limits validated and _validate_topology's result
    inq,           \* Ops -> number of buffered input bundles
    active,        \* Ops -> number of in-flight units the operator tracks
    ready,         \* Ops -> units the substrate finished, not yet processed
    failedOp,      \* operator whose unit of work failed (0: none)
    loopPc,        \* position of the control loop thread
    limits,        \* the limits of the current scheduling step
    selOp,         \* the operator the last selection returned (0: none)
    dispatched,    \* number of dispatches of the current step so far
    selIdle,       \* whether the sink's queue was empty at the last selection
    stepForced,    \* the step began idle with candidates, none strictly eligible
    exitReason,    \* "none" | "completed" | "error" | "shutdown"
    outqueue,      \* the sink's output queue
    appended,      \* every item ever appended to the sink's output queue
    cPc,           \* consumer: "idle" | "handling" (inside get_next's handler)
    cItem,         \* the terminal item get_next is raising
    received,      \* the outcome of every get_next call that has finished
    outputInfo,    \* the consumption counter (_output_info)
    lastStats,     \* what the latest get_stats() call returned (NoStats: no call yet)
    shPc,          \* thread -> position inside shutdown()
    lockOwner,     \* holder of _shutdown_lock ("none": free)
    shutdownFlag,  \* _shutdown
    finalStats,    \* _final_stats (NoStats until a shutdown() freezes the stats)
    teardownCount, \* number of times the teardown ran
    opShutdowns,   \* Ops -> number of invocations of op.shutdown()
    calls,         \* number of shutdown() calls the user thread has made
    joinRaised,    \* a shutdown() call failed in join(): thread never started
    envCfg,        \* the env_config of the fault-injecting environments
    counter,       \* the Counter service: key -> interaction count
    envPc,         \* worker -> "idle" | "check" (counted, error check to come)
    envOutcome,    \* worker -> "none" | "ok" | "error": its env's latest call
    envCalls,      \* worker -> reset()/step() calls begun since the counter's reset
    envRestarted   \* worker -> recreated since the counter's reset

cfgVars == <<topo, userLimits>>
opVars == <<inq, active, ready, failedOp>>
loopVars == <<loopPc, limits, selOp, dispatched, selIdle, stepForced, exitReason>>
sinkVars == <<outqueue, appended>>
consVars == <<cPc, cItem, received, outputInfo, lastStats>>
shutVars == <<shPc, lockOwner, shutdownFlag, finalStats, teardownCount, opShutdowns, calls,
             joinRaised>>
envVars == <<envCfg, counter, envPc, envOutcome, envCalls, envRestarted>>
vars == <<cfgVars, cluster, execState, validated, opVars, loopVars, sinkVars,
          consVars, shutVars, envVars>>

Threads == {"consumer", "user"}

Scale(inc, k) ==
    Res(IF inc.cpu = None THEN None ELSE inc.cpu * k,
        IF inc.gpu = None THEN None ELSE inc.gpu * k,
        IF inc.mem = None THEN None ELSE inc.mem * k)

\* An operator's current usage: its base usage plus one incremental usage
\* per in-flight unit of work.
OpUsage(t, act, i) == Add(t[i].base, Scale(t[i].inc, act[i]))

RECURSIVE SumTo(_, _)
SumTo(f, n) == IF n = 0 THEN 0 ELSE SumTo(f, n - 1) + f[n]

\* TopologyResourceUsage.of(topology).overall: the operators' usages summed,
\* dimension by dimension.
TopologyResourceUsageOf(t, act) ==
    Res(SumTo([i \in Ops |-> OrZero(OpUsage(t, act, i).cpu)], NumOps),
        SumTo([i \in Ops |-> OrZero(OpUsage(t, act, i).gpu)], NumOps),
        SumTo([i \in Ops |-> OrZero(OpUsage(t, act, i).mem)], NumOps))

\* completed(op): no more input will come, none is buffered, none in flight.
OpCompleted(q, act, i) == \A j \in 1..i : q[j] = 0 /\ act[j] = 0

AllCompleted(q, act) == \A i \in Ops : OpCompleted(q, act, i)

\* Candidates: not completed, with input available.
Candidates(q, act) == {i \in Ops : q[i] > 0 /\ ~OpCompleted(q, act, i)}

StrictlyEligible(t, q, act, usage, lim) ==
    {i \in Candidates(q, act) : SatisfiesLimit(Add(usage, t[i].inc), lim)}

SetMax(S) == CHOOSE x \in S : \A y \in S : y <= x

\* A faulty variant: the override applied to every operator not completed,
\* with buffered input or without.
SelectOperatorToRunAnyOp(t, q, act, usage, lim, ensure, ndisp) ==
    LET strict == StrictlyEligible(t, q, act, usage, lim)
        elig == IF ensure /\ ndisp = 0
                THEN {i \in Ops : ~OpCompleted(q, act, i)} ELSE strict
    IN IF elig = {} THEN 0 ELSE SetMax(elig)

\* select_operator_to_run: the eligible candidate closest to the sink, 0 for
\* none.  ndisp is the number of dispatches already made in this step.
SelectOperatorToRun(t, q, act, usage, lim, ensure, ndisp) ==
    LET strict == StrictlyEligible(t, q, act, usage, lim)
        elig == IF ensure /\ ndisp = 0 THEN Candidates(q, act) ELSE strict
    IN IF elig = {} THEN 0 ELSE SetMax(elig)

\* ------------------------------------------------- control loop (140-228)
\* A faulty variant: the consumer is never taken to be idling.
ConsumerNeverIdling(q) == FALSE

\* _consumer_idling (226-228)
ConsumerIdling(q) == Len(q) = 0

\* A faulty variant: the loop condition without the test of the flag.
RunLoopIgnoresShutdown(stepResult, shutdown) == stepResult

\* A faulty variant: the loop condition without the step's result.
RunLoopStopsOnFlagOnly(stepResult, shutdown) == ~shutdown

\* The loop condition of run() (147).
RunLoopContinues(stepResult, shutdown) == stepResult /\ ~shutdown

\* Faulty variants of the except clause: the error put at the head of the
\* queue, and the error replaced by another one.
RunExceptAppendLeft(q, e) == <<ErrorItem(e)>> \o q
RunExceptAppendOther(q, e) == Append(q, ErrorItem(0))

\* The except clause of run() (151).
RunExceptAppend(q, e) == Append(q, ErrorItem(e))

\* Faulty variants of the finally clause: no end marker, and the end marker
\* put at the head of the queue.
RunFinallySkip(q) == q
RunFinallyAppendLeft(q) == <<EndOfStream>> \o q

\* The finally clause of run() (154).
RunFinallyAppend(q) == Append(q, EndOfStream)

\* A faulty variant: the usage taken before any unit of work was in flight.
CurUsageStale(t, act) == TopologyResourceUsageOf(t, [i \in Ops |-> 0])

\* The usage the loop passes to a selection (199, 211).
CurUsage(t, act) == TopologyResourceUsageOf(t, act)

\* execute() (71-87): validate against the limits of the moment, then start
\* the control loop thread.  A failed validation leaves the thread unstarted.
Execute ==
    /\ execState = "new"
    /\ LET lim == GetOrRefreshResourceLimits(userLimits, cluster)
           r == ValidateTopology(topo, lim)
       IN /\ validated' = [err |-> r.err, why |-> r.why, limits |-> lim]
          /\ IF r.err = "ok"
             THEN execState' = "started" /\ loopPc' = "step"
             ELSE execState' = "failed" /\ loopPc' = loopPc
    /\ UNCHANGED <<cfgVars, envVars, cluster, opVars, limits, selOp, dispatched, selIdle,
                   stepForced, exitReason, sinkVars, consVars, shutVars>>

\* process_completed_tasks: results the substrate has finished move to the
\* operators' output queues (the next operator's input, or the sink's queue).
InqAfterProcess == [i \in Ops |-> inq[i] + (IF i > 1 THEN ready[i - 1] ELSE 0)]
ActiveAfterProcess == [i \in Ops |-> active[i] - ready[i]]

\* A faulty variant: the flag is tested before the step is made.
StepProcessTestsFlag ==
    /\ loopPc = "step"
    /\ failedOp = 0
    /\ IF shutdownFlag
       THEN /\ loopPc' = "finally"
            /\ exitReason' = "shutdown"
            /\ UNCHANGED <<inq, active, ready, outqueue, appended>>
       ELSE /\ \E new \in {NewBundles(CountKind(appended, "Bundle") + 1, ready[Sink])} :
                 /\ inq' = InqAfterProcess
                 /\ active' = ActiveAfterProcess
                 /\ ready' = [i \in Ops |-> 0]
                 /\ outqueue' = outqueue \o new
                 /\ appended' = appended \o new
            /\ loopPc' = "select"
            /\ exitReason' = exitReason
    /\ UNCHANGED <<cfgVars, envVars, cluster, execState, validated, failedOp, limits, selOp,
                   dispatched, selIdle, stepForced, consVars, shutVars>>

\* _scheduling_loop_step, line 195: process_completed_tasks.
StepProcess ==
    /\ loopPc = "step"
    /\ failedOp = 0
    /\ \E new \in {NewBundles(CountKind(appended, "Bundle") + 1, ready[Sink])} :
         /\ inq' = InqAfterProcess
         /\ active' = ActiveAfterProcess
         /\ ready' = [i \in Ops |-> 0]
         /\ outqueue' = outqueue \o new
         /\ appended' = appended \o new
    /\ loopPc' = "select"
    /\ UNCHANGED <<cfgVars, envVars, cluster, execState, validated, failedOp, limits, selOp,
                   dispatched, selIdle, stepForced, exitReason, consVars, shutVars>>

\* _scheduling_loop_step, lines 198-206: refresh the limits, compute the
\* usage and make the first selection of the step.
StepSelect ==
    /\ loopPc = "select"
    /\ \E lim \in {GetOrRefreshResourceLimits(userLimits, cluster)},
          usage \in {CurUsage(topo, active)} :
         /\ limits' = lim
         /\ dispatched' = 0
         /\ selIdle' = (Len(outqueue) = 0)
         /\ stepForced' = (/\ Len(outqueue) = 0
                           /\ Candidates(inq, active) # {}
                           /\ StrictlyEligible(topo, inq, active, usage, lim) = {})
         /\ selOp' = SelectOperatorToRun(topo, inq, active, usage, lim,
                                         ConsumerIdling(outqueue), 0)
    /\ loopPc' = "burst"
    /\ UNCHANGED <<cfgVars, envVars, cluster, execState, validated, opVars, exitReason,
                   sinkVars, consVars, shutVars>>

\* A failed unit of work makes process_completed_tasks raise inside the step.
StepRaise ==
    /\ loopPc = "step"
    /\ failedOp # 0
    /\ loopPc' = "except"
    /\ UNCHANGED <<cfgVars, envVars, cluster, execState, validated, opVars, limits, selOp,
                   dispatched, selIdle, stepForced, exitReason, sinkVars, consVars,
                   shutVars>>

\* A faulty variant: an "if" in place of the "while", one dispatch per step.
DispatchOnce ==
    /\ loopPc = "burst"
    /\ selOp # 0
    /\ inq' = [inq EXCEPT ![selOp] = @ - 1]
    /\ active' = [active EXCEPT ![selOp] = @ + 1]
    /\ dispatched' = dispatched + 1
    /\ selIdle' = (Len(outqueue) = 0)
    /\ selOp' = 0
    /\ UNCHANGED <<cfgVars, envVars, cluster, execState, validated, ready, failedOp, loopPc,
                   limits, stepForced, exitReason, sinkVars, consVars, shutVars>>

\* Lines 207-217: dispatch the selected operator, recompute the usage, select
\* again with the idling flag of the moment and the limits of the step.
Dispatch ==
    /\ loopPc = "burst"
    /\ selOp # 0
    /\ \E q \in {[inq EXCEPT ![selOp] = @ - 1]},
          a \in {[active EXCEPT ![selOp] = @ + 1]} :
         \E usage \in {CurUsage(topo, a)} :
            /\ inq' = q
            /\ active' = a
            /\ dispatched' = dispatched + 1
            /\ selIdle' = (Len(outqueue) = 0)
            /\ selOp' = SelectOperatorToRun(topo, q, a, usage, limits,
                                            ConsumerIdling(outqueue), dispatched + 1)
    /\ UNCHANGED <<cfgVars, envVars, cluster, execState, validated, ready, failedOp, loopPc,
                   limits, stepForced, exitReason, sinkVars, consVars, shutVars>>

\* A faulty variant: the loop tests the flag under the shutdown lock.
StepReturnUnderLock ==
    /\ loopPc = "burst"
    /\ selOp = 0
    /\ lockOwner = "none"
    /\ LET stepResult == ~AllCompleted(inq, active)
       IN IF RunLoopContinues(stepResult, shutdownFlag)
          THEN loopPc' = "step" /\ exitReason' = exitReason
          ELSE /\ loopPc' = "finally"
               /\ exitReason' = IF stepResult THEN "shutdown" ELSE "completed"
    /\ dispatched' = 0
    /\ stepForced' = FALSE
    /\ selIdle' = FALSE
    /\ UNCHANGED <<cfgVars, envVars, cluster, execState, validated, opVars, limits, selOp,
                   sinkVars, consVars, shutVars>>

\* Lines 219-224 and the loop condition of run() (147).
StepReturn ==
    /\ loopPc = "burst"
    /\ selOp = 0
    /\ LET stepResult == ~AllCompleted(inq, active)
       IN IF RunLoopContinues(stepResult, shutdownFlag)
          THEN loopPc' = "step" /\ exitReason' = exitReason
          ELSE /\ loopPc' = "finally"
               /\ exitReason' = IF stepResult THEN "shutdown" ELSE "completed"
    /\ dispatched' = 0
    /\ stepForced' = FALSE
    /\ selIdle' = FALSE
    /\ UNCHANGED <<cfgVars, envVars, cluster, execState, validated, opVars, limits, selOp,
                   sinkVars, consVars, shutVars>>

\* run(), lines 149-151.
RunExcept ==
    /\ loopPc = "except"
    /\ outqueue' = RunExceptAppend(outqueue, failedOp)
    /\ appended' = RunExceptAppend(appended, failedOp)
    /\ loopPc' = "finally"
    /\ exitReason' = "error"
    /\ UNCHANGED <<cfgVars, envVars, cluster, execState, validated, opVars, limits, selOp,
                   dispatched, selIdle, stepForced, consVars, shutVars>>

\* run(), lines 152-154.
RunFinally ==
    /\ loopPc = "finally"
    /\ outqueue' = RunFinallyAppend(outqueue)
    /\ appended' = RunFinallyAppend(appended)
    /\ loopPc' = "done"
    /\ UNCHANGED <<cfgVars, envVars, cluster, execState, validated, opVars, limits, selOp,
                   dispatched, selIdle, stepForced, exitReason, consVars, shutVars>>

\* ------------------------------------------------------- task substrate
\* A dispatched unit of work finishes; the loop learns of it at its next
\* process_completed_tasks.
TaskComplete(i) ==
    /\ active[i] - ready[i] - (IF failedOp = i THEN 1 ELSE 0) > 0
    /\ ready' = [ready EXCEPT ![i] = @ + 1]
    /\ UNCHANGED <<cfgVars, envVars, cluster, execState, validated, inq, active, failedOp,
                   loopVars, sinkVars, consVars, shutVars>>

TaskFail(i) ==
    /\ failedOp = 0
    /\ active[i] - ready[i] > 0
    /\ failedOp' = i
    /\ UNCHANGED <<cfgVars, envVars, cluster, execState, validated, inq, active, ready,
                   loopVars, sinkVars, consVars, shutVars>>

\* The cluster's reported capacity changes (autoscaling).
ClusterValues ==
    { [CPU |-> 2, GPU |-> None, object_store_memory |-> 9],
      [CPU |-> None, GPU |-> 1, object_store_memory |-> None] }

ClusterChange ==
    /\ cluster' \in ClusterValues \ {cluster}
    /\ UNCHANGED <<cfgVars, envVars, execState, validated, opVars, loopVars, sinkVars,
                   consVars, shutVars>>

\* ----------------------------------------------------- get_next (93-110)
\* A faulty variant: the end marker returned like a bundle, not raised.
GetNextRaisesErrorOnly(item) == item.kind = "Error"

\* Lines 100-107: the sentinel values become exceptions, a bundle is returned.
GetNextRaises(item) == item.kind # "Bundle"

StopIteration == [kind |-> "StopIteration", v |-> 0]

\* A faulty variant: the handler raises an exception of its own in place of
\* the one it caught.
GetNextOutcomeReplaced(item) ==
    IF item.kind = "EOS" THEN StopIteration
    ELSE IF item.kind = "Error" THEN ErrorItem(0)
    ELSE item

GetNextOutcome(item) == IF item.kind = "EOS" THEN StopIteration ELSE item

\* A faulty variant: the counter left alone.
OutputInfoNoUpdate(n) == n

\* Line 106: _output_info.update(1).
OutputInfoUpdate(n) == n + 1

\* An exception raised by the pull itself (95-97), not by the translation of
\* a sentinel.
PullError == [kind |-> "PullError", v |-> 0]

\* get_output_blocking: wait for the sink's queue to hold an item, take the
\* oldest one.
GetOutputBlocking(q) == [item |-> Head(q), rest |-> Tail(q)]

\* What returning from shutdown() means for thread t: the consumer's call was
\* made by get_next's handler, which then re-raises (108-110).
ReturnFromShutdown(t) ==
    /\ shPc' = [shPc EXCEPT ![t] = "idle"]
    /\ IF t = "consumer"
       THEN /\ received' = Append(received, cItem)
            /\ cPc' = "idle"
            /\ UNCHANGED <<cItem, outputInfo, lastStats>>
       ELSE UNCHANGED consVars

GetNext ==
    /\ cPc = "idle"
    /\ execState = "started"
    /\ outqueue # << >>
    /\ LET got == GetOutputBlocking(outqueue)
       IN /\ outqueue' = got.rest
          /\ IF GetNextRaises(got.item)
             THEN /\ cItem' = GetNextOutcome(got.item)
                  /\ cPc' = "handling"
                  /\ shPc' = [shPc EXCEPT !["consumer"] = "acquire"]
                  /\ UNCHANGED <<received, outputInfo>>
             ELSE /\ received' = Append(received, GetNextOutcome(got.item))
                  /\ outputInfo' = OutputInfoUpdate(outputInfo)
                  /\ UNCHANGED <<cItem, cPc, shPc>>
    /\ UNCHANGED <<cfgVars, envVars, cluster, execState, validated, opVars, loopVars,
                   appended, lastStats, lockOwner, shutdownFlag, finalStats,
                   teardownCount, opShutdowns, calls, joinRaised>>

\* Lines 95-97 and 108-110: the pull raises before it has taken an item; the
\* handler calls shutdown() and re-raises.
GetNextPullFails ==
    /\ cPc = "idle"
    /\ execState = "started"
    /\ CountKind(received, "PullError") < MaxPullFailures
    /\ cItem' = PullError
    /\ cPc' = "handling"
    /\ shPc' = [shPc EXCEPT !["consumer"] = "acquire"]
    /\ UNCHANGED <<cfgVars, envVars, cluster, execState, validated, opVars, loopVars,
                   sinkVars, received, outputInfo, lastStats, lockOwner,
                   shutdownFlag, finalStats, teardownCount, opShutdowns, calls,
                   joinRaised>>

\* ---------------------------------------------------- get_stats (156-175)
\* _generate_stats: a new stats object built from what the operators report
\* now; here, each operator's units of work received and not yet finished.
GenerateStats(q, act) == [set |-> TRUE, pending |-> [i \in Ops |-> q[i] + act[i]]]

\* No stats object: _final_stats before a shutdown() has frozen the stats.
NoStats == [set |-> FALSE, pending |-> << >>]

\* A faulty variant: the snapshot ignored.
GetStatsRecomputed(final, current) == current

\* Lines 161-164.
GetStatsResult(final, current) == IF final.set THEN final ELSE current

\* get_stats(), callable from any thread once the topology is built.
GetStats ==
    /\ execState # "new"
    /\ lastStats' = GetStatsResult(finalStats, GenerateStats(inq, active))
    /\ lastStats' # lastStats
    /\ UNCHANGED <<cfgVars, envVars, cluster, execState, validated, opVars, loopVars,
                   sinkVars, cPc, cItem, received, outputInfo, shutVars>>

\* ----------------------------------------------------- shutdown (114-138)
\* A thread other than the consumer's get_next calls shutdown().
ShutdownCall ==
    /\ shPc["user"] = "idle"
    /\ calls < MaxShutdownCalls
    /\ calls' = calls + 1
    /\ shPc' = [shPc EXCEPT !["user"] = "acquire"]
    /\ UNCHANGED <<cfgVars, envVars, cluster, execState, validated, opVars, loopVars,
                   sinkVars, consVars, lockOwner, shutdownFlag, finalStats,
                   teardownCount, opShutdowns, joinRaised>>

\* A faulty variant: the flag is not tested.
ShutdownNeverDone(flag) == FALSE

\* Line 116: the test made under the lock.
ShutdownAlreadyDone(flag) == flag

\* Lines 115-118: take the lock; return if already shut down, else set the flag.
ShutdownAcquire(t) ==
    /\ shPc[t] = "acquire"
    /\ lockOwner = "none"
    /\ IF ShutdownAlreadyDone(shutdownFlag)
       THEN /\ ReturnFromShutdown(t)
            /\ UNCHANGED <<lockOwner, shutdownFlag>>
       ELSE /\ shutdownFlag' = TRUE
            /\ lockOwner' = t
            /\ shPc' = [shPc EXCEPT ![t] = "join"]
            /\ UNCHANGED consVars
    /\ UNCHANGED <<cfgVars, envVars, cluster, execState, validated, opVars, loopVars,
                   sinkVars, finalStats, teardownCount, opShutdowns, calls,
                   joinRaised>>

\* A faulty variant: join() without a timeout waits for the loop to exit.
JoinWaitsForExit(loopEnded) == loopEnded

\* Line 120: join(timeout=2.0) returns when the loop thread has ended, and
\* when the grace period is over whether it has ended or not.
JoinReturns(loopEnded) == TRUE

\* Line 120: on a thread never started join() raises, which releases the lock
\* and leaves shutdown() with the flag set and the teardown not run.
ShutdownJoin(t) ==
    /\ shPc[t] = "join"
    /\ IF execState = "started"
       THEN /\ JoinReturns(loopPc = "done")
            /\ shPc' = [shPc EXCEPT ![t] = "teardown"]
            /\ UNCHANGED <<lockOwner, consVars, joinRaised>>
       ELSE /\ lockOwner' = "none"
            /\ joinRaised' = TRUE
            /\ ReturnFromShutdown(t)
    /\ UNCHANGED <<cfgVars, envVars, cluster, execState, validated, opVars, loopVars,
                   sinkVars, shutdownFlag, finalStats, teardownCount, opShutdowns,
                   calls>>

\* A faulty variant: the hooks of the operators still holding work skipped.
ShutdownTeardownIdleOnly(t) ==
    /\ shPc[t] = "teardown"
    /\ finalStats' = GenerateStats(inq, active)
    /\ teardownCount' = teardownCount + 1
    /\ opShutdowns' = [i \in Ops |-> opShutdowns[i] + (IF inq[i] + active[i] = 0 THEN 1 ELSE 0)]
    /\ lockOwner' = "none"
    /\ ReturnFromShutdown(t)
    /\ UNCHANGED <<cfgVars, envVars, cluster, execState, validated, opVars, loopVars,
                   sinkVars, shutdownFlag, calls, joinRaised>>

\* Lines 121-138: freeze the stats, close the indicators, invoke every
\* operator's shutdown hook; leaving the with block releases the lock.
ShutdownTeardown(t) ==
    /\ shPc[t] = "teardown"
    /\ finalStats' = GenerateStats(inq, active)
    /\ teardownCount' = teardownCount + 1
    /\ opShutdowns' = [i \in Ops |-> opShutdowns[i] + 1]
    /\ lockOwner' = "none"
    /\ ReturnFromShutdown(t)
    /\ UNCHANGED <<cfgVars, envVars, cluster, execState, validated, opVars, loopVars,
                   sinkVars, shutdownFlag, calls, joinRaised>>

\* ------------------------- FaultInjectEnv (test_worker_failures.py, 27-161)
\* The remote workers' indices; every worker holds one environment
\* (vector index 0).
WorkerIndices == 1..EnvWorkers

\* Counter._key
CounterKey(eval, worker_index, vector_index) == <<eval, worker_index, vector_index>>

CounterKeys == {CounterKey(e, w, 0) : e \in BOOLEAN, w \in WorkerIndices}

\* The key of worker w's environment: config.get("evaluation", False), its
\* worker index, its vector index.
EnvKey(w) == CounterKey(envCfg.evaluation, w, 0)

\* Counter.reset: a new defaultdict(int), every count 0.
CounterZero == [k \in CounterKeys |-> 0]

\* Counter.increment
CounterIncrement(cnt, k) == [cnt EXCEPT ![k] = @ + 1]

\* _get_count: the service's count for the key, -1 without a service.
GetCount(hasCounter, cnt, k) == IF hasCounter THEN cnt[k] ELSE -1

\* A faulty variant: the stop count taken as the last failing count.
MaybeRaiseErrorStopInclusive(cfg, worker_index, count) ==
    IF worker_index \notin cfg.bad_indices THEN FALSE
    ELSE IF cfg.counter /\ cfg.failure_start_count >= 0
                        /\ count < cfg.failure_start_count THEN FALSE
    ELSE IF cfg.counter /\ cfg.failure_stop_count >= 0
                        /\ count > cfg.failure_stop_count THEN FALSE
    ELSE TRUE

\* _maybe_raise_error (119-140): TRUE when the ValueError is raised.  A
\* missing failure_start_count or failure_stop_count reads as -1.
MaybeRaiseError(cfg, worker_index, count) ==
    IF worker_index \notin cfg.bad_indices THEN FALSE
    ELSE IF cfg.counter /\ cfg.failure_start_count >= 0
                        /\ count < cfg.failure_start_count THEN FALSE
    ELSE IF cfg.counter /\ cfg.failure_stop_count >= 0
                        /\ count >= cfg.failure_stop_count THEN FALSE
    ELSE TRUE

\* reset() (142-145) and step() (147-158) up to the end of _increment_count:
\* with a counter service, the call waits for its increment to be applied.
EnvCall(w) ==
    /\ envPc[w] = "idle"
    /\ SumTo(envCalls, EnvWorkers) < MaxEnvCalls
    /\ \E kind \in {"reset", "step"} :
         /\ counter' = IF envCfg.counter THEN CounterIncrement(counter, EnvKey(w))
                                         ELSE counter
         /\ envCalls' = [envCalls EXCEPT ![w] = @ + 1]
         /\ envPc' = [envPc EXCEPT ![w] = "check"]
    /\ UNCHANGED <<cfgVars, cluster, execState, validated, opVars, loopVars,
                   sinkVars, consVars, shutVars, envCfg, envOutcome, envRestarted>>

\* The rest of reset() and step(): _maybe_raise_error reads the count and
\* raises, or the call goes on to the wrapped environment and returns.
EnvCheck(w) ==
    /\ envPc[w] = "check"
    /\ \E count \in {GetCount(envCfg.counter, counter, EnvKey(w))} :
         envOutcome' = [envOutcome EXCEPT ![w] =
                           IF MaybeRaiseError(envCfg, w, count) THEN "error" ELSE "ok"]
    /\ envPc' = [envPc EXCEPT ![w] = "idle"]
    /\ UNCHANGED <<cfgVars, cluster, execState, validated, opVars, loopVars,
                   sinkVars, consVars, shutVars, envCfg, counter, envCalls,
                   envRestarted>>

\* A worker whose environment raised is recreated: a new FaultInjectEnv
\* (78-102) that looks the named counter service up again.
EnvRestart(w) ==
    /\ envPc[w] = "idle"
    /\ envOutcome[w] = "error"
    /\ envOutcome' = [envOutcome EXCEPT ![w] = "none"]
    /\ envRestarted' = [envRestarted EXCEPT ![w] = TRUE]
    /\ UNCHANGED <<cfgVars, cluster, execState, validated, opVars, loopVars,
                   sinkVars, consVars, shutVars, envCfg, counter, envPc, envCalls>>

\* The test resets the counter service (counter.reset.remote()).
CounterReset ==
    /\ envCfg.counter
    /\ counter # CounterZero
    /\ counter' = CounterZero
    /\ envCalls' = [w \in WorkerIndices |-> 0]
    /\ envRestarted' = [w \in WorkerIndices |-> FALSE]
    /\ UNCHANGED <<cfgVars, cluster, execState, validated, opVars, loopVars,
                   sinkVars, consVars, shutVars, envCfg, envPc, envOutcome>>

\* The environments before their first call, under the configuration cfg.
EnvInitWith(cfgs) ==
    /\ envCfg \in cfgs
    /\ counter = CounterZero
    /\ envPc = [w \in WorkerIndices |-> "idle"]
    /\ envOutcome = [w \in WorkerIndices |-> "none"]
    /\ envCalls = [w \in WorkerIndices |-> 0]
    /\ envRestarted = [w \in WorkerIndices |-> FALSE]

\* No fault injection: the executions of the streaming executor use no
\* environment.
EnvNoFaults ==
    [bad_indices |-> {}, failure_start_count |-> None, failure_stop_count |-> None,
     counter |-> FALSE, evaluation |-> FALSE]

\* ------------------------------------------------------------ topologies
NoRes == Res(None, None, None)
KTaskCpu == [base |-> NoRes, inc |-> Res(1, None, None)]
KTaskGpu == [base |-> NoRes, inc |-> Res(None, 1, None)]
KActorCpu == [base |-> Res(1, None, None), inc |-> Res(0, None, None)]
KActorGpu == [base |-> Res(None, 1, None), inc |-> Res(None, 0, None)]
KBaseMem == [base |-> Res(None, None, 2), inc |-> Res(1, None, None)]
KCpuAndGpu == [base |-> NoRes, inc |-> Res(1, 1, None)]
KIncMem == [base |-> NoRes, inc |-> Res(None, None, 1)]
KCpuGpuAndMem == [base |-> NoRes, inc |-> Res(1, 1, 1)]

OpKinds ==
    {KTaskCpu, KTaskGpu, KActorCpu, KActorGpu, KBaseMem, KCpuAndGpu, KIncMem,
     KCpuGpuAndMem}

\* The executor after construction (43-61), before execute().
ExecutorInit(T, U, C, n) ==
    /\ topo \in T
    /\ userLimits \in U
    /\ cluster \in C
    /\ execState = "new"
    /\ validated = [err |-> "none", why |-> "none", limits |-> NoRes]
    /\ inq = [i \in Ops |-> IF i = 1 THEN n ELSE 0]
    /\ active = [i \in Ops |-> 0]
    /\ ready = [i \in Ops |-> 0]
    /\ failedOp = 0
    /\ loopPc = "unstarted"
    /\ limits = NoRes
    /\ selOp = 0
    /\ dispatched = 0
    /\ selIdle = FALSE
    /\ stepForced = FALSE
    /\ exitReason = "none"
    /\ outqueue = << >>
    /\ appended = << >>
    /\ cPc = "idle"
    /\ cItem = StopIteration
    /\ received = << >>
    /\ outputInfo = 0
    /\ lastStats = NoStats
    /\ shPc = [t \in Threads |-> "idle"]
    /\ lockOwner = "none"
    /\ shutdownFlag = FALSE
    /\ finalStats = NoStats
    /\ teardownCount = 0
    /\ opShutdowns = [i \in Ops |-> 0]
    /\ calls = 0
    /\ joinRaised = FALSE

InitWithInputs(T, U, C, n) == ExecutorInit(T, U, C, n) /\ EnvInitWith({EnvNoFaults})

InitWith(T, U, C) == InitWithInputs(T, U, C, NumInputs)

\* The executions of the lifecycle claims: task-pool and actor-pool operators
\* on cpu, limits configured or autodetected.
CoreTopologies ==
    { [i \in Ops |-> KTaskCpu],
      [i \in Ops |-> IF i = 1 THEN KActorCpu ELSE KTaskCpu],
      [i \in Ops |-> IF i = 1 THEN KTaskCpu ELSE KCpuAndGpu] }

CoreUserLimits == { NoRes }

Init == InitWith(CoreTopologies, CoreUserLimits, ClusterValues)

LoopNext == StepProcess \/ StepSelect \/ StepRaise \/ Dispatch \/ StepReturn \/ RunExcept \/ RunFinally

Next ==
    \/ Execute
    \/ LoopNext
    \/ \E i \in Ops : TaskComplete(i)
    \/ \E i \in Ops : TaskFail(i)
    \/ ClusterChange
    \/ GetNext
    \/ ShutdownCall
    \/ \E t \in Threads : ShutdownAcquire(t)
    \/ \E t \in Threads : ShutdownJoin(t)
    \/ \E t \in Threads : ShutdownTeardown(t)

Spec == Init /\ [][Next]_vars

\* ------------------------------------------------------------------ claims
IsPrefix(a, b) == Len(a) <= Len(b) /\ SubSeq(b, 1, Len(a)) = a

Terminal(x) == x.kind \in {"Error", "EOS"}

TerminalCount(q) == CountKind(q, "Error") + CountKind(q, "EOS")

\* C1: however the loop ends, run() has appended exactly one EndOfStream to
\* the sink's queue, and it is the last item ever appended: none before the
\* loop has ended, one after, nothing behind it.
C1_ExactlyOneEndOfStream ==
    /\ CountKind(appended, "EOS") = (IF loopPc = "done" THEN 1 ELSE 0)
    /\ (loopPc = "done" => /\ appended[Len(appended)] = EndOfStream
                           /\ exitReason \in {"completed", "error", "shutdown"})

C1_Witness ==
    /\ loopPc = "done"
    /\ exitReason = "shutdown"
    /\ CountKind(appended, "Bundle") >= 1
    /\ appended[Len(appended)] = EndOfStream

\* C2 as stated: the items ever appended hold at most one terminal item
\* (Error or EndOfStream, never both), and a terminal item is the last one.
C2_SingleTerminalItem ==
    /\ TerminalCount(appended) <= 1
    /\ \A k \in 1..Len(appended) : Terminal(appended[k]) => k = Len(appended)

\* C2 amended: the items ever appended are a prefix of zero or more Bundles,
\* then at most one Error, then exactly one EndOfStream; an Error is always
\* followed by the EndOfStream, never by a Bundle or a second Error.
C2_BundlesErrorEndOfStream ==
    LET n == Len(BundlesOf(appended))
        tail == SubSeq(appended, n + 1, Len(appended))
    IN /\ \A k \in 1..n : appended[k].kind = "Bundle"
       /\ \/ tail = << >>
          \/ tail = <<EndOfStream>>
          \/ Len(tail) \in {1, 2} /\ tail[1].kind = "Error"
                                  /\ (Len(tail) = 2 => tail[2] = EndOfStream)
       /\ (loopPc = "done" => Len(tail) >= 1 /\ tail[Len(tail)] = EndOfStream)

C2_Witness ==
    /\ Len(appended) >= 3
    /\ appended[1].kind = "Bundle"
    /\ appended[Len(appended) - 1].kind = "Error"
    /\ appended[Len(appended)] = EndOfStream

\* C3: after a get_next has signalled end of iteration or raised an Error, no
\* later get_next returns a Bundle; the Bundles returned are, in order, the
\* first Bundles appended to the sink's queue.
C3_NoBundleAfterTerminal ==
    /\ \A k \in 1..Len(received) : \A l \in 1..Len(received) :
          (k < l /\ received[k].kind \in {"StopIteration", "Error"})
              => received[l].kind # "Bundle"
    /\ IsPrefix(BundlesOf(received), BundlesOf(appended))

C3_Witness ==
    /\ Len(received) >= 3
    /\ Len(BundlesOf(received)) >= 2
    /\ received[Len(received)].kind = "StopIteration"

\* C4: the exception a scheduling step raised is observed exactly once: the
\* get_next that raises it comes after every Bundle appended has been
\* delivered, the error is the one the step raised, and the get_next after it
\* signals end of stream.  (A consumer that reaches the end of the stream of a
\* failed execution has seen the error.)
C4_ErrorObservedOnce ==
    /\ CountKind(received, "Error") <= 1
    /\ \A k \in 1..Len(received) :
          received[k].kind = "Error" =>
              /\ exitReason = "error"
              /\ received[k] = ErrorItem(failedOp)
              /\ BundlesOf(SubSeq(received, 1, k - 1)) = BundlesOf(appended)
              /\ (k < Len(received) => received[k + 1] = StopIteration)
    /\ \A k \in 1..Len(received) :
          (exitReason = "error" /\ received[k] = StopIteration) =>
              (k > 1 /\ received[k - 1] = ErrorItem(failedOp))

C4_Witness ==
    /\ Len(received) >= 3
    /\ received[1].kind = "Bundle"
    /\ received[Len(received) - 1].kind = "Error"
    /\ received[Len(received)] = StopIteration

\* ------------------------------------------------------------ validation
\* The executions of the validation claims: every kind of first operator
\* with every kind of downstream operator, limits configured or autodetected.
ValidationTopologies ==
    { t \in [Ops -> OpKinds] : \A i \in Ops : i >= 2 => t[i] = t[2] }

ValidationUserLimits == { NoRes, Res(0, None, None), Res(4, 2, None) }

ValidationClusters ==
    ClusterValues \cup { [CPU |-> 4, GPU |-> 1, object_store_memory |-> 4] }

ValidationInit ==
    InitWith(ValidationTopologies, ValidationUserLimits, ValidationClusters)

ValidationNext ==
    \/ Execute
    \/ StepProcess
    \/ StepSelect
    \/ Dispatch
    \/ StepReturn
    \/ RunFinally
    \/ \E i \in Ops : TaskComplete(i)
    \/ GetNext
    \/ \E t \in Threads : ShutdownAcquire(t)
    \/ \E t \in Threads : ShutdownJoin(t)
    \/ \E t \in Threads : ShutdownTeardown(t)

ValidationSpec == ValidationInit /\ [][ValidationNext]_vars

BaseCpu == SumTo([i \in Ops |-> OrZero(topo[i].base.cpu)], NumOps)
BaseGpu == SumTo([i \in Ops |-> OrZero(topo[i].base.gpu)], NumOps)
BaseMem == SumTo([i \in Ops |-> OrZero(topo[i].base.mem)], NumOps)

\* The operators' base usage plus the control overhead (one cpu) exceeds the
\* limits execute() validated against, on some dimension.
BaseExceedsLimits ==
    \/ BaseCpu + 1 > validated.limits.cpu
    \/ BaseGpu > validated.limits.gpu
    \/ BaseMem > validated.limits.mem

NothingDispatched ==
    /\ inq = [i \in Ops |-> IF i = 1 THEN NumInputs ELSE 0]
    /\ \A i \in Ops : active[i] = 0 /\ ready[i] = 0
    /\ appended = << >>

\* C5: when the operators' base usage plus the one-cpu control overhead
\* exceeds the limits on some dimension, execute() fails before the control
\* loop thread is started: no step runs and nothing is dispatched.
C5_OverLimitNeverStarts ==
    (execState # "new" /\ BaseExceedsLimits) =>
        /\ execState = "failed"
        /\ validated.err # "ok"
        /\ loopPc = "unstarted"
        /\ NothingDispatched

C5_Witness ==
    /\ execState = "failed"
    /\ validated.err = "ValueError"
    /\ BaseCpu = 1
    /\ validated.limits.cpu = 0
    /\ loopPc = "unstarted"

\* ------------------------------------------------------------ scheduling
\* C6: an operator selected for dispatch while the sink's queue was not empty
\* (ensure_at_least_one_running false) fits the limits of the step: the
\* topology's usage before the dispatch plus the operator's incremental usage
\* satisfies them.
C6_NoOverLimitDispatch ==
    (loopPc = "burst" /\ selOp # 0 /\ ~selIdle) =>
        SatisfiesLimit(Add(TopologyResourceUsageOf(topo, active), topo[selOp].inc),
                       limits)

C6_Witness ==
    /\ loopPc = "burst"
    /\ selOp # 0
    /\ ~selIdle
    /\ dispatched >= 1
    /\ TopologyResourceUsageOf(topo, active).cpu + 1 = limits.cpu

\* C7: a step that begins with the sink's queue empty, some candidate and no
\* candidate eligible under the strict limits dispatches exactly one
\* operator: the first selection returns one, the burst ends after it.
C7_ForcedProgressExactlyOne ==
    (loopPc = "burst" /\ stepForced) =>
        IF selOp # 0 THEN dispatched = 0 ELSE dispatched = 1

C7_Witness ==
    /\ loopPc = "burst"
    /\ stepForced
    /\ selOp = 0
    /\ dispatched = 1
    /\ Candidates(inq, active) # {}
    /\ outqueue = << >>

\* ------------------------------------------------------------- shutdown
ConsumerRaised == \E k \in 1..Len(received) : received[k].kind # "Bundle"

\* A shutdown() call has returned.
SomeShutdownReturned ==
    \/ calls >= 1 /\ shPc["user"] = "idle"
    \/ ConsumerRaised

\* C9: however many shutdown() calls are made on a started executor, one
\* after another or at the same time, the teardown never runs twice and no
\* operator's hook is invoked twice; once a call has returned, the teardown
\* has run exactly once and every hook has been invoked exactly once.
\* (Executions in which an earlier call failed in join() because the thread
\* was not started are another case.)
C9_TeardownOnce ==
    /\ teardownCount <= 1
    /\ \A i \in Ops : opShutdowns[i] = teardownCount
    /\ (SomeShutdownReturned /\ execState = "started" /\ ~joinRaised) =>
           (teardownCount = 1 /\ shutdownFlag)

C9_Witness ==
    /\ teardownCount = 1
    /\ calls >= 1
    /\ shPc["user"] = "idle"
    /\ ConsumerRaised
    /\ cPc = "idle"
    /\ \A i \in Ops : opShutdowns[i] = 1

\* --------------------------------------------------------------- liveness
\* Executions in which no unit of work fails and nobody but the consumer's
\* get_next calls shutdown(); the cluster's capacity changes at any time.
LiveNext ==
    \/ Execute
    \/ StepProcess
    \/ StepSelect
    \/ Dispatch
    \/ StepReturn
    \/ RunFinally
    \/ \E i \in Ops : TaskComplete(i)
    \/ ClusterChange
    \/ GetNext
    \/ \E t \in Threads : ShutdownAcquire(t)
    \/ \E t \in Threads : ShutdownJoin(t)
    \/ \E t \in Threads : ShutdownTeardown(t)

\* One step of the control loop thread, of the consumer thread (get_next
\* and the shutdown() its handler calls), of a thread inside shutdown().
LoopStep == StepProcess \/ StepSelect \/ Dispatch \/ StepReturn \/ RunFinally

ShutdownStep(t) == ShutdownAcquire(t) \/ ShutdownJoin(t) \/ ShutdownTeardown(t)

ConsumerStep == GetNext \/ ShutdownStep("consumer")

\* The loop thread keeps running, every dispatched unit of work completes,
\* and the consumer keeps calling get_next.
LiveFairness ==
    /\ WF_vars(LoopStep)
    /\ WF_vars(\E i \in Ops : TaskComplete(i))
    /\ WF_vars(ConsumerStep)

LiveSpec == Init /\ [][LiveNext]_vars /\ LiveFairness

ConsumerGotEndOfStream == \E k \in 1..Len(received) : received[k] = StopIteration

\* C8: when every dispatched unit of work completes and the consumer keeps
\* pulling, a started execution ends whatever the limits do between steps:
\* every operator becomes completed, the loop exits as completed, and the
\* consumer receives end of stream.
C8_NoDeadlock ==
    (execState = "started") ~>
        (/\ AllCompleted(inq, active)
         /\ loopPc = "done"
         /\ exitReason = "completed"
         /\ ConsumerGotEndOfStream)

\* The execution ended and its last step ran with a cpu limit of 0, below
\* the usage of any unit of work.
C8_Witness ==
    /\ loopPc = "done"
    /\ exitReason = "completed"
    /\ ConsumerGotEndOfStream
    /\ Len(BundlesOf(received)) = NumInputs
    /\ limits.cpu = 0

\* Executions of one valid topology under configured limits (the cluster's
\* capacity plays no part), with every thread inside shutdown() running on;
\* nothing is assumed of the control loop, the task substrate or the consumer.
ShutdownInit ==
    InitWith({[i \in Ops |-> KTaskCpu]}, {Res(2, None, None)},
             {[CPU |-> 2, GPU |-> None, object_store_memory |-> 9]})

ShutdownNext ==
    \/ Execute
    \/ LoopNext
    \/ \E i \in Ops : TaskComplete(i)
    \/ \E i \in Ops : TaskFail(i)
    \/ GetNext
    \/ ShutdownCall
    \/ \E t \in Threads : ShutdownAcquire(t)
    \/ \E t \in Threads : ShutdownJoin(t)
    \/ \E t \in Threads : ShutdownTeardown(t)

ShutdownFairness == \A t \in Threads : WF_vars(ShutdownStep(t))

ShutdownLiveSpec == ShutdownInit /\ [][ShutdownNext]_vars /\ ShutdownFairness

\* C10: a shutdown() call on a started executor returns, with the teardown
\* done (by this call or by the call that set the flag), whether or not the
\* control loop ever exits.  (Executions in which an earlier call failed in
\* join() because the thread was not started are another case.)
C10_ShutdownTerminates ==
    \A t \in Threads :
        (shPc[t] # "idle" /\ execState = "started" /\ ~joinRaised) ~>
            (/\ shPc[t] = "idle"
             /\ teardownCount = 1
             /\ \A i \in Ops : opShutdowns[i] = 1)

\* The teardown was completed by a call whose wait ended before the loop did.
C10_Witness ==
    /\ execState = "started"
    /\ calls >= 1
    /\ shPc["user"] = "idle"
    /\ teardownCount = 1
    /\ \A i \in Ops : opShutdowns[i] = 1
    /\ loopPc \in {"step", "burst"}
    /\ ~joinRaised

\* ----------------------------------------------------------- cancellation
\* Executions of one valid topology in which the control loop thread keeps
\* running; nothing is assumed of the task substrate, the consumer or the
\* callers of shutdown().
CancelSpec == ShutdownInit /\ [][ShutdownNext]_vars /\ WF_vars(LoopNext)

LoopInStep == loopPc \in {"step", "select", "burst"}

\* C11: the flag is tested when a step returns, after its dispatch burst, and
\* nowhere else.  Once it is set, the loop condition lets no further step
\* begin (the step under way, or the one the loop had already decided to
\* take, is the last), nothing is dispatched after that step, and the loop
\* exits and appends the EndOfStream marker.  (A thread started with the flag
\* already set takes its first step: that step is the one under way.)
C11_CooperativeShutdown ==
    /\ [][(shutdownFlag /\ loopPc \notin {"step", "unstarted"}) => loopPc' # "step"]_vars
    /\ [][(shutdownFlag /\ ~LoopInStep /\ loopPc # "unstarted")
              => (~LoopInStep' /\ UNCHANGED <<inq, active>>)]_vars
    /\ (shutdownFlag /\ execState = "started") ~>
           (/\ loopPc = "done"
            /\ appended # << >>
            /\ appended[Len(appended)] = EndOfStream)

\* The loop left with work remaining: the flag was set during a step whose
\* burst went on, and the step's return ended the loop.
C11_Witness ==
    /\ shutdownFlag
    /\ loopPc = "done"
    /\ exitReason = "shutdown"
    /\ ~AllCompleted(inq, active)
    /\ \E i \in Ops : active[i] > 0
    /\ appended[Len(appended)] = EndOfStream

\* ----------------------------------------------------------- pull side
\* Executions of one valid topology in which the pull itself may fail and
\* only get_next's handler calls shutdown().
PullNext ==
    \/ Execute
    \/ LoopNext
    \/ \E i \in Ops : TaskComplete(i)
    \/ \E i \in Ops : TaskFail(i)
    \/ GetNext
    \/ GetNextPullFails
    \/ \E t \in Threads : ShutdownStep(t)

PullSpec == ShutdownInit /\ [][PullNext]_vars

\* The items get_next has taken from the sink's queue and finished handling.
TakenItems ==
    LET n == Len(appended) - Len(outqueue)
    IN SubSeq(appended, 1, IF cPc = "handling" /\ cItem # PullError THEN n - 1 ELSE n)

\* The outcomes of the get_next calls that took an item.
OutcomesOfTaken == SelectSeq(received, LAMBDA x : x # PullError)

\* C12: every get_next that has raised (on an Error item, on the end marker,
\* or because the pull failed) did so after its handler's shutdown() call:
\* the flag is set and the teardown has run.  What the caller received is
\* what was caught: the very Error item the loop appended, never another
\* exception and never an end of iteration in its place.
C12_RaiseAfterShutdownOriginal ==
    /\ ConsumerRaised =>
          /\ shutdownFlag
          /\ teardownCount = 1
          /\ \A i \in Ops : opShutdowns[i] = 1
    /\ Len(OutcomesOfTaken) = Len(TakenItems)
    /\ \A k \in 1..Len(TakenItems) :
          /\ TakenItems[k].kind = "Error" => OutcomesOfTaken[k] = TakenItems[k]
          /\ TakenItems[k].kind = "EOS" => OutcomesOfTaken[k] = StopIteration
          /\ TakenItems[k].kind = "Bundle" => OutcomesOfTaken[k] = TakenItems[k]

\* get_next raised twice: a failed pull first, the loop's Error item later.
C12_Witness ==
    /\ Len(received) >= 3
    /\ \E k \in 1..Len(received) : received[k] = PullError
    /\ received[Len(received)].kind = "Error"
    /\ received[Len(received)] = ErrorItem(failedOp)
    /\ cPc = "idle"
    /\ teardownCount = 1

KindOfOutcome(k) == IF k = "EOS" THEN "StopIteration" ELSE k

\* C13: get_next translates the item it takes by kind (the end marker into
\* end of iteration, an Error item into a raised error, a Bundle into the
\* same Bundle returned), and the consumption counter equals the number of
\* Bundles returned: one more for each Bundle, none for an Error item, the
\* end marker or a failed pull.
C13_TranslationAndCounter ==
    /\ outputInfo = CountKind(received, "Bundle")
    /\ outputInfo = CountKind(TakenItems, "Bundle")
    /\ BundlesOf(received) = BundlesOf(TakenItems)
    /\ Len(OutcomesOfTaken) = Len(TakenItems)
    /\ \A k \in 1..Len(TakenItems) :
          OutcomesOfTaken[k].kind = KindOfOutcome(TakenItems[k].kind)

\* Two Bundles returned, then the Error raised, then end of iteration: the
\* counter stands at two.
C13_Witness ==
    /\ outputInfo = 2
    /\ Len(received) >= 4
    /\ received[1].kind = "Bundle"
    /\ CountKind(received, "Error") = 1
    /\ received[Len(received)] = StopIteration

\* ------------------------------------------- unsupported incremental usage
NonZero(x) == x # None /\ x # 0

NeedsCpuAndGpu(i) == NonZero(topo[i].inc.cpu) /\ NonZero(topo[i].inc.gpu)

NeedsIncMemory(i) == NonZero(topo[i].inc.mem)

RejectedAsUnsupported ==
    /\ execState = "failed"
    /\ validated.err = "NotImplementedError"
    /\ loopPc = "unstarted"
    /\ NothingDispatched

\* C14: a topology with an operator, at any position, whose incremental
\* usage has both cpu and gpu non-zero is rejected by execute() before the
\* control loop thread is started, whatever the limits.
C14_CpuAndGpuRejected ==
    (execState # "new" /\ \E i \in Ops : NeedsCpuAndGpu(i)) => RejectedAsUnsupported

\* The offending operator is not the first, and the base usage fits.
C14_Witness ==
    /\ execState = "failed"
    /\ validated.why = "cpu_and_gpu"
    /\ ~NeedsCpuAndGpu(1)
    /\ NeedsCpuAndGpu(NumOps)
    /\ ~BaseExceedsLimits

\* C15: a topology with an operator, at any position, whose incremental
\* usage has a non-zero object_store_memory is rejected by execute() before
\* the control loop thread is started; so in a started execution no
\* operator has one, and whether an operator fits the limits is the same
\* with its incremental memory left out.
C15_IncMemoryRejected ==
    /\ (execState # "new" /\ \E i \in Ops : NeedsIncMemory(i)) => RejectedAsUnsupported
    /\ execState = "started" => \A i \in Ops : ~NeedsIncMemory(i)
    /\ loopPc = "burst" =>
          \A i \in Candidates(inq, active) :
             /\ SatisfiesLimit(Add(TopologyResourceUsageOf(topo, active), topo[i].inc), limits)
                  = SatisfiesLimit(Add(TopologyResourceUsageOf(topo, active),
                                       [topo[i].inc EXCEPT !.mem = None]), limits)

C15_Witness ==
    /\ execState = "failed"
    /\ validated.why = "memory"
    /\ ~NeedsIncMemory(1)
    /\ NeedsIncMemory(NumOps)
    /\ ~BaseExceedsLimits

\* ------------------------------------------------------- effective limits
\* Executions up to the first selection of a step, over every combination
\* of configured limits and reported capacities, the capacity changing at
\* any time.
LimitsUserLimits == { Res(c, g, m) : c \in {None, 0, 2}, g \in {None, 0, 1}, m \in {None, 0, 3} }

LimitsClusters ==
    [CPU : {None, 0, 3}, GPU : {None, 2}, object_store_memory : {None, 3, 4, 9}]

LimitsInit == InitWith({[i \in Ops |-> KTaskCpu]}, LimitsUserLimits, LimitsClusters)

LimitsClusterChange ==
    /\ cluster' \in LimitsClusters \ {cluster}
    /\ UNCHANGED <<cfgVars, envVars, execState, validated, opVars, loopVars, sinkVars,
                   consVars, shutVars>>

LimitsNext == Execute \/ StepProcess \/ StepSelect \/ LimitsClusterChange

LimitsSpec == LimitsInit /\ [][LimitsNext]_vars

Reported(v) == IF v = None THEN 0 ELSE v

\* The largest q with 4 * q <= n.
QuarterFloor(n) == CHOOSE q \in 0..n : 4 * q <= n /\ n < 4 * (q + 1)

ExpectedLimits(u, c) ==
    Res(IF u.cpu # None THEN u.cpu ELSE Reported(c.CPU),
        IF u.gpu # None THEN u.gpu ELSE Reported(c.GPU),
        IF u.mem # None THEN u.mem ELSE QuarterFloor(Reported(c.object_store_memory)))

\* C16: the limits execute() validates against and the limits every step
\* takes are, per dimension, the configured value when one is set (an
\* explicit 0 included), else the capacity the cluster reports at that
\* moment (0 when it reports none) for cpu and gpu, and the floor of a
\* quarter of the reported object store capacity for object_store_memory.
C16_EffectiveLimits ==
    [][/\ Execute => validated'.limits = ExpectedLimits(userLimits, cluster)
       /\ StepSelect => limits' = ExpectedLimits(userLimits, cluster)]_vars

\* A step took its limits with cpu autodetected from a cluster reporting no
\* cpu, gpu configured as 0 on a cluster with gpus, memory a quarter of 9.
C16_Witness ==
    /\ loopPc = "burst"
    /\ userLimits = Res(None, 0, None)
    /\ cluster = [CPU |-> None, GPU |-> 2, object_store_memory |-> 9]
    /\ limits = Res(0, 0, 2)
    /\ validated.limits = Res(3, 0, 0)

\* ---------------------------------------------------------------- stats
\* Executions of one valid topology in which no unit of work fails and
\* nobody pulls, with shutdown() and get_stats() called at any time.
StatsNext ==
    \/ Execute
    \/ LoopStep
    \/ \E i \in Ops : TaskComplete(i)
    \/ ShutdownCall
    \/ \E t \in Threads : ShutdownStep(t)
    \/ GetStats

StatsSpec == ShutdownInit /\ [][StatsNext]_vars

ConsumerSideStep ==
    \/ GetNext
    \/ GetNextPullFails
    \/ ShutdownCall
    \/ \E t \in Threads : ShutdownStep(t)

\* C18 as stated: a step of a thread calling get_next or shutdown() changes
\* nothing of the topology, the operators or the operator states: it invokes
\* no state-changing operation on an operator.
C18_OnlyLoopMutates ==
    [][ConsumerSideStep => UNCHANGED <<topo, inq, active, opShutdowns>>]_vars

\* C18 amended: buffered inputs and in-flight work change in steps of the
\* control loop only, and the loop invokes no shutdown hook.  A thread calling
\* get_next or shutdown() leaves the topology, the buffered inputs and the
\* in-flight work alone and appends nothing; it takes the oldest item of the
\* sink's queue, sets the flag, and, in the teardown of the shutdown() call
\* that set the flag, invokes the shutdown hook of every operator once.
C18_LoopDispatchesCallerTearsDown ==
    /\ [][<<topo, inq, active>>' # <<topo, inq, active>> => LoopNext]_vars
    /\ [][opShutdowns' # opShutdowns =>
             \E t \in Threads :
                /\ shPc[t] = "teardown" /\ lockOwner = t /\ shutdownFlag
                /\ shPc'[t] = "idle"
                /\ opShutdowns' = [i \in Ops |-> opShutdowns[i] + 1]]_vars
    /\ [][ConsumerSideStep =>
             /\ UNCHANGED <<topo, inq, active, ready, failedOp, appended>>
             /\ \/ outqueue' = outqueue
                \/ outqueue # << >> /\ outqueue' = Tail(outqueue)
             /\ (shutdownFlag' # shutdownFlag => shutdownFlag')]_vars

\* The consumer's get_next raised and its handler's shutdown() tore the
\* operators down, with work still buffered or in flight.
C18_Witness ==
    /\ ConsumerRaised
    /\ cPc = "idle"
    /\ calls = 0
    /\ teardownCount = 1
    /\ \A i \in Ops : opShutdowns[i] = 1
    /\ \E i \in Ops : inq[i] + active[i] > 0

\* ------------------------------------------------------------- teardown
\* Executions of one valid topology in which the control loop thread and
\* every thread inside shutdown() keep running; nothing is assumed of the
\* consumer: it may stop pulling at any point.
TeardownSpec ==
    ShutdownInit /\ [][ShutdownNext]_vars /\ WF_vars(LoopNext) /\ ShutdownFairness

AllHooksInvoked == \A i \in Ops : opShutdowns[i] >= 1

\* C19 as stated: once the control loop has terminated, every operator's
\* shutdown hook is eventually invoked, whatever the consumer does (taken
\* here for the executions in which no shutdown() call failed in join()).
C19_LoopExitLeadsToTeardown == (loopPc = "done" /\ ~joinRaised) ~> AllHooksInvoked

\* C19 amended: the loop's termination invokes no hook.  Once the loop has
\* terminated, every operator's hook is eventually invoked if the consumer
\* has taken the end marker from the sink's queue or some thread is inside
\* shutdown().  (Executions in which an earlier call failed in join()
\* because the thread was not started are another case.)
C19_TeardownNeedsACaller ==
    /\ [][LoopNext => UNCHANGED <<opShutdowns, teardownCount>>]_vars
    /\ (/\ loopPc = "done"
        /\ ~joinRaised
        /\ outqueue = << >> \/ \E t \in Threads : shPc[t] # "idle")
          ~> AllHooksInvoked

\* The loop completed, the consumer drained the stream to its end, and its
\* get_next's handler tore the operators down; nobody else called shutdown().
C19_Witness ==
    /\ loopPc = "done"
    /\ exitReason = "completed"
    /\ outqueue = << >>
    /\ ConsumerGotEndOfStream
    /\ calls = 0
    /\ AllHooksInvoked

\* ------------------------------------------------------------ scenario A
\* A pipeline of stages with an incremental usage of one cpu each, under a
\* configured cpu limit of 2; no unit of work fails, and only the consumer's
\* get_next calls shutdown().
ScenarioInit ==
    InitWithInputs({[i \in Ops |-> KTaskCpu]}, {Res(2, None, None)},
                   {[CPU |-> 2, GPU |-> None, object_store_memory |-> 9]},
                   ScenarioInputs)

ScenarioNext ==
    \/ Execute
    \/ LoopStep
    \/ \E i \in Ops : TaskComplete(i)
    \/ ConsumerStep

ScenarioSpec == ScenarioInit /\ [][ScenarioNext]_vars

CpuInUse == TopologyResourceUsageOf(topo, active).cpu

\* C20 as stated: at a selection made while the sink's queue is not empty,
\* the usage does not exceed 2, and an operator (the sink stage included) is
\* selected only with a cpu free.
C20_UsageNeverAboveLimit ==
    (loopPc = "burst" /\ ~selIdle) =>
        /\ CpuInUse <= 2
        /\ selOp # 0 => CpuInUse <= 1

\* C20 amended: while the sink's queue is not empty an operator (the sink
\* stage included) is selected only with a cpu free, so no dispatch made
\* then takes the usage above 2 or raises a usage already above it; a usage
\* above 2 comes only from dispatches forced while the sink's queue was
\* empty, and may still stand at a later selection.
C20_NoDispatchAboveLimit ==
    /\ []((loopPc = "burst" /\ ~selIdle /\ selOp # 0) => CpuInUse <= 1)
    /\ [][(Dispatch /\ ~selIdle) => CpuInUse' <= 2]_vars
    /\ [][(CpuInUse' > 2 /\ CpuInUse' > CpuInUse) =>
             (Dispatch /\ selIdle /\ dispatched = 0)]_vars

\* The first two stages run at the limit, the last stage has input and is
\* not selected, and the consumer has output waiting.
C20_Witness ==
    /\ loopPc = "burst"
    /\ ~selIdle
    /\ outqueue # << >>
    /\ active[1] >= 1
    /\ active[2] >= 1
    /\ CpuInUse = 2
    /\ inq[Sink] >= 1
    /\ selOp = 0

\* ------------------------------------------------------------ scenario C
\* A step whose first selection finds some candidate and none eligible under
\* the strict limits: every operator with input sits at the ceiling.
StepAtCeiling ==
    /\ Candidates(inq, active) # {}
    /\ StrictlyEligible(topo, inq, active, CurUsage(topo, active),
                        GetOrRefreshResourceLimits(userLimits, cluster)) = {}

\* C21 as stated: every step that finds the operators at their ceiling and
\* has a candidate selects an operator for dispatch, whatever the consumer
\* has left in the sink's queue.
C21_ForcedWheneverAtCeiling ==
    [][(StepSelect /\ StepAtCeiling) => selOp' # 0]_vars

\* C21 amended: a step that finds the operators at their ceiling and has a
\* candidate dispatches exactly one operator when the sink's queue is empty
\* at the selection, and none when the queue holds an item the consumer has
\* not pulled.
C21_ForcedOnlyWhileQueueEmpty ==
    /\ [][(StepSelect /\ StepAtCeiling) => (selOp' # 0 <=> outqueue = << >>)]_vars
    /\ [][(Dispatch /\ stepForced) => (selOp' = 0 /\ dispatched' = 1)]_vars
    /\ [][(StepReturn /\ stepForced) => dispatched = 1]_vars

\* The stages already use more than the limit, the queue is empty, and the
\* step has made its one forced dispatch.
C21_Witness ==
    /\ loopPc = "burst"
    /\ stepForced
    /\ dispatched = 1
    /\ selOp = 0
    /\ CpuInUse = 3
    /\ limits.cpu = 2
    /\ Candidates(inq, active) # {}
    /\ cPc = "idle"

\* ------------------------------------------------- limits exceeded at run time
\* Executions of the core topologies in which units of work may fail and the
\* cluster's capacity changes at any time; shutdown() is called by the
\* consumer's get_next only.
StepNext ==
    \/ Execute
    \/ LoopNext
    \/ \E i \in Ops : TaskComplete(i)
    \/ \E i \in Ops : TaskFail(i)
    \/ ClusterChange
    \/ ConsumerStep

StepSpec == Init /\ [][StepNext]_vars

\* The first selection of a step finds no eligible candidate: none fits the
\* refreshed limits on top of the topology's usage, and the override does not
\* apply (the sink's queue is not empty, or there is no candidate at all).
NoCandidateEligible ==
    /\ StrictlyEligible(topo, inq, active, TopologyResourceUsageOf(topo, active),
                        GetOrRefreshResourceLimits(userLimits, cluster)) = {}
    /\ (outqueue # << >> \/ Candidates(inq, active) = {})

\* The refreshed limits of the step are below the base usage of a topology
\* that passed the validation of execute().
LimitsBelowBaseUsage ==
    /\ execState = "started"
    /\ ~SatisfiesLimit(BaseUsageUpTo(topo, NumOps), limits)

\* C22: a step in which no candidate is eligible selects none and goes on to
\* the end of the step with the operators' buffered inputs, in-flight work
\* and output and the sink's queue untouched; the step then returns without
\* an exception, and the loop takes another step unless every operator is
\* completed or the shutdown flag is set.  The loop's except clause is
\* entered only after a unit of work has failed.  All of it holds as well
\* when the cluster's capacity has dropped below the base usage.
C22_OverLimitDefersDispatch ==
    /\ [][(StepSelect /\ NoCandidateEligible) =>
             (selOp' = 0 /\ loopPc' = "burst" /\ UNCHANGED <<opVars, sinkVars>>)]_vars
    /\ [][(loopPc = "burst" /\ selOp = 0 /\ dispatched = 0 /\ LoopNext) =>
             /\ UNCHANGED <<opVars, sinkVars>>
             /\ loopPc' \in {"step", "finally"}
             /\ exitReason' # "error"
             /\ (loopPc' = "step" \/ shutdownFlag \/ AllCompleted(inq, active))]_vars
    /\ [][loopPc' = "except" => failedOp # 0]_vars

\* A step ends without a dispatch although an operator has input, with the
\* limits of the step below the base usage, and the loop has not failed.
C22_Witness ==
    /\ loopPc = "burst"
    /\ selOp = 0
    /\ dispatched = 0
    /\ Candidates(inq, active) # {}
    /\ outqueue # << >>
    /\ LimitsBelowBaseUsage
    /\ failedOp = 0
    /\ ~shutdownFlag

\* ------------------------------------------------------------ loop exit
\* Some operator still has buffered input or work in flight.
WorkLeft == \E i \in Ops : inq[i] + active[i] > 0

\* C25: at the end of a step with some operator not completed the loop
\* takes another step unless the shutdown flag is set; at the end of a step
\* with every operator completed it exits, recorded as completed; the loop
\* leaves its steps only that way, by the shutdown flag or by an exception
\* in a step, so a loop that has exited as completed has left no operator
\* uncompleted.
C25_ExitsNormallyOnlyWhenCompleted ==
    /\ [][(StepReturn /\ WorkLeft /\ ~shutdownFlag) =>
             (loopPc' = "step" /\ exitReason' = "none")]_vars
    /\ [][(StepReturn /\ ~WorkLeft) =>
             (loopPc' = "finally" /\ exitReason' = "completed")]_vars
    /\ [][(loopPc' = "finally" /\ loopPc # "finally") =>
             (~WorkLeft \/ shutdownFlag \/ loopPc = "except")]_vars
    /\ [](exitReason = "completed" => ~WorkLeft)

\* The loop has exited as completed, with no shutdown requested, after
\* steps that ended with work left.
C25_Witness ==
    /\ loopPc = "finally"
    /\ exitReason = "completed"
    /\ ~shutdownFlag
    /\ ~WorkLeft
    /\ CountKind(appended, "Bundle") = NumInputs

\* ------------------------------------------------- limits within a step
\* What a query of the limits would return now.
LimitsNow == GetOrRefreshResourceLimits(userLimits, cluster)

\* C26: the limits change only at the query that follows
\* process_completed_tasks and precedes the first selection, which takes
\* the capacity the cluster reports then; every selection of the burst is
\* made with the limits of that query and with the usage recomputed after
\* the dispatch before it; a change of the cluster's capacity during a burst
\* alters neither the limits of the step nor the operator already selected,
\* and shows in the limits of the next step.
C26_LimitsFixedWithinStep ==
    /\ [][limits' # limits => (StepSelect /\ loopPc = "select")]_vars
    /\ [][StepSelect =>
             /\ limits' = LimitsNow
             /\ selOp' = SelectOperatorToRun(topo, inq, active,
                                             TopologyResourceUsageOf(topo, active),
                                             LimitsNow, outqueue = << >>, 0)]_vars
    /\ [][Dispatch =>
             /\ limits' = limits
             /\ selOp' = SelectOperatorToRun(topo, inq', active',
                                             TopologyResourceUsageOf(topo, active'),
                                             limits, outqueue = << >>,
                                             dispatched')]_vars
    /\ [][(loopPc = "burst" /\ ClusterChange) =>
             (limits' = limits /\ selOp' = selOp /\ loopPc' = "burst")]_vars

\* In the middle of a burst the cluster's capacity has changed: the operator
\* selected after a dispatch fits the limits of the step, and would not have
\* been selected under the capacity reported now.
C26_Witness ==
    /\ loopPc = "burst"
    /\ dispatched >= 1
    /\ selOp # 0
    /\ limits # LimitsNow
    /\ SelectOperatorToRun(topo, inq, active, TopologyResourceUsageOf(topo, active),
                           LimitsNow, outqueue = << >>, dispatched) = 0

\* ------------------------------------------------------- dispatch burst
\* Executions without failures and without shutdown() calls from outside,
\* the cluster's capacity changing at any time; the loop thread keeps
\* running as long as it can take a step.
BurstUserLimits == { NoRes, Res(2, None, None) }

BurstInit == InitWith(CoreTopologies, BurstUserLimits, ClusterValues)

BurstNext ==
    \/ Execute
    \/ LoopStep
    \/ \E i \in Ops : TaskComplete(i)
    \/ ClusterChange
    \/ ConsumerStep

BurstSpec == BurstInit /\ [][BurstNext]_vars /\ WF_vars(LoopNext)

\* The buffered inputs of all operators.
BufferedInputs == SumTo(inq, NumOps)

\* C27: in a burst the loop's only step is a dispatch while an operator is
\* selected, and the step ends only when the selection has returned none;
\* every dispatch takes one buffered input, so the burst ends; at its end no
\* candidate fits the limits of the step on top of the usage of the moment.
C27_BurstRunsUntilNoneEligible ==
    /\ [][(loopPc = "burst" /\ selOp # 0 /\ LoopNext) =>
             (Dispatch /\ loopPc' = "burst" /\ dispatched' = dispatched + 1
                       /\ BufferedInputs' = BufferedInputs - 1)]_vars
    /\ [][(loopPc = "burst" /\ loopPc' # "burst" /\ LoopNext) => selOp = 0]_vars
    /\ []((loopPc = "burst" /\ selOp = 0) =>
             StrictlyEligible(topo, inq, active,
                              TopologyResourceUsageOf(topo, active), limits) = {})
    /\ (loopPc = "burst") ~> (loopPc # "burst")

\* A burst that has ended after dispatching the first operator twice, with
\* input left that does not fit the limits.
C27_Witness ==
    /\ loopPc = "burst"
    /\ selOp = 0
    /\ dispatched = 2
    /\ active[1] = 2
    /\ Candidates(inq, active) # {}

\* ---------------------------------------------------- dispatch targets
\* C28: the operator a selection has returned has buffered input and is
\* not completed, whether it was selected under the strict limits or under
\* the override, and it still has when dispatch_next_task is invoked on it,
\* which takes one of its buffered inputs.
C28_DispatchOnlyCandidates ==
    /\ []((loopPc = "burst" /\ selOp # 0) =>
             (selOp \in Ops /\ inq[selOp] > 0 /\ ~OpCompleted(inq, active, selOp)))
    /\ [][Dispatch => (inq[selOp] > 0 /\ inq'[selOp] = inq[selOp] - 1
                                     /\ active'[selOp] = active[selOp] + 1)]_vars

\* An operator selected under the override although the usage is above the
\* limits, while an operator closer to the sink, not completed, has no input.
C28_Witness ==
    /\ loopPc = "burst"
    /\ stepForced
    /\ selOp # 0
    /\ selOp # Sink
    /\ inq[selOp] > 0
    /\ inq[Sink] = 0
    /\ ~OpCompleted(inq, active, Sink)
    /\ ~SatisfiesLimit(TopologyResourceUsageOf(topo, active), limits)

\* ------------------------------------------------------------- the lock
\* Executions of one valid topology without failures, shutdown() called by
\* the consumer's get_next and by another thread; the loop thread and the
\* threads inside shutdown() keep running, nothing is assumed of the task
\* substrate or of the consumer's pulls.
LockNext ==
    \/ Execute
    \/ LoopStep
    \/ \E i \in Ops : TaskComplete(i)
    \/ GetNext
    \/ ShutdownCall
    \/ \E t \in Threads : ShutdownStep(t)

LockSpec == ShutdownInit /\ [][LockNext]_vars /\ WF_vars(LoopStep) /\ ShutdownFairness

LoopRunning == loopPc \notin {"unstarted", "done"}

\* C29: no step of the loop thread takes or releases the shutdown lock, and
\* the loop thread can take its next step whoever holds the lock; the holder
\* of the lock can always go on (its wait for the loop is bounded), and the
\* consumer waiting for an item holds no lock.  With the loop thread and the
\* threads in shutdown() running on, a lock that is held is released, and a
\* started loop whose exit a lock holder waits for exits.
C29_NoLockBetweenLoopAndCallers ==
    /\ [][LoopStep => UNCHANGED lockOwner]_vars
    /\ []((lockOwner # "none" /\ LoopRunning) => ENABLED LoopStep)
    /\ [](\A t \in Threads : lockOwner = t => ENABLED ShutdownStep(t))
    /\ [](cPc = "idle" => lockOwner # "consumer")
    /\ (lockOwner # "none") ~> (lockOwner = "none")
    /\ (lockOwner # "none" /\ LoopRunning) ~> (loopPc = "done")

\* A caller holds the lock in join() while the loop is in the middle of a
\* dispatch burst.
C29_Witness ==
    /\ lockOwner = "user"
    /\ shPc["user"] = "join"
    /\ cPc = "idle"
    /\ outqueue = << >>
    /\ loopPc = "burst"
    /\ selOp # 0
    /\ shutdownFlag

\* ------------------------------------------------- get_next on an Error
\* get_next has dequeued an Error item and has not yet raised it to its
\* caller.
HandlingError == cPc = "handling" /\ cItem.kind = "Error"

\* C30 as stated: a get_next that has dequeued an Error item is never found
\* waiting in join() for the loop to exit, nor running the teardown.
C30_ErrorSurfacedWithoutWaiting ==
    HandlingError => shPc["consumer"] \notin {"join", "teardown"}

\* C30 amended: a get_next that has dequeued an Error item is inside its
\* own synchronous shutdown() call until it raises the error.  When that
\* call is the one that sets the flag it goes on to join(), whose wait for
\* the loop ends whether the loop has exited or not, and to the teardown,
\* and the error is raised by the step that ends the teardown; otherwise the
\* call returns once it has had the lock, with the flag found set.
C30_ErrorSurfacedAfterShutdownCall ==
    /\ [](HandlingError => shPc["consumer"] \in {"acquire", "join", "teardown"})
    /\ [][(HandlingError /\ ShutdownAcquire("consumer") /\ ~shutdownFlag) =>
             (HandlingError' /\ shPc'["consumer"] = "join" /\ lockOwner' = "consumer")]_vars
    /\ []((HandlingError /\ shPc["consumer"] = "join") =>
             ENABLED ShutdownJoin("consumer"))
    /\ [][(HandlingError /\ ShutdownJoin("consumer")) =>
             (HandlingError' /\ shPc'["consumer"] = "teardown")]_vars
    /\ [][(HandlingError /\ ~HandlingError') =>
             /\ received' = Append(received, cItem)
             /\ shPc'["consumer"] = "idle"
             /\ shutdownFlag
             /\ \/ /\ ShutdownTeardown("consumer")
                   /\ teardownCount' = 1
                   /\ \A i \in Ops : opShutdowns'[i] = 1
                \/ /\ ShutdownAcquire("consumer")
                   /\ UNCHANGED <<teardownCount, opShutdowns>>]_vars

\* The error has been raised to the caller after the teardown, run by
\* get_next's own call whose wait ended before the loop had exited.
C30_Witness ==
    /\ cPc = "idle"
    /\ received # << >>
    /\ received[Len(received)].kind = "Error"
    /\ calls = 0
    /\ teardownCount = 1
    /\ \A i \in Ops : opShutdowns[i] = 1
    /\ loopPc = "finally"

\* ------------------------------------------- the fault-injecting environment
\* The env_configs of the tests: any set of bad workers; failure counts
\* missing, zero or positive; with and without a counter service; rollout
\* and evaluation workers.
EnvConfigs ==
    [bad_indices : SUBSET WorkerIndices,
     failure_start_count : {None, 0, 2},
     failure_stop_count : {None, 0, 3},
     counter : BOOLEAN,
     evaluation : BOOLEAN]

\* The remote workers' environments alone; no executor runs.
EnvInit ==
    /\ ExecutorInit({[i \in Ops |-> KTaskCpu]}, {NoRes},
                    {[CPU |-> 2, GPU |-> None, object_store_memory |-> 9]}, 0)
    /\ EnvInitWith(EnvConfigs)

EnvNext ==
    \/ \E w \in WorkerIndices : EnvCall(w)
    \/ \E w \in WorkerIndices : EnvCheck(w)
    \/ \E w \in WorkerIndices : EnvRestart(w)
    \/ CounterReset

EnvSpec == EnvInit /\ [][EnvNext]_vars

\* The condition under which a call that read `count` is to fail.
FailureExpected(w, count) ==
    /\ w \in envCfg.bad_indices
    /\ envCfg.counter =>
          /\ (envCfg.failure_start_count < 0 \/ count >= envCfg.failure_start_count)
          /\ (envCfg.failure_stop_count < 0 \/ count < envCfg.failure_stop_count)

C32_DrainedAlwaysTornDown ==
    ConsumerGotEndOfStream =>
        (teardownCount = 1 /\ \A i \in Ops : opShutdowns[i] = 1)

\* C32 amended: once a get_next has raised the end of iteration, its
\* handler's shutdown() call has returned with the flag set; the teardown has
\* then run exactly once and every hook has been invoked exactly once, unless
\* a shutdown() call made before the loop thread was started had failed in
\* join() with the flag set, in which case no teardown has run at all.
C32_DrainedTornDownUnlessJoinRaised ==
    ConsumerGotEndOfStream =>
        /\ shutdownFlag
        /\ shPc["consumer"] = "idle"
        /\ teardownCount = (IF joinRaised THEN 0 ELSE 1)
        /\ \A i \in Ops : opShutdowns[i] = teardownCount

\* The consumer took every bundle and the end marker; its get_next's own
\* shutdown() call ran the teardown and froze the stats before the end of
\* iteration was raised.
C32_Witness ==
    /\ ConsumerGotEndOfStream
    /\ Len(BundlesOf(received)) = NumInputs
    /\ calls = 0
    /\ teardownCount = 1
    /\ finalStats.set
    /\ lockOwner = "none"
    /\ cPc = "idle"

\* ------------------------------------------- where the loop tests the flag
\* C33: the control loop tests the shutdown flag only after a scheduling step
\* has returned.  The loop leaves for a shutdown only at the end of a burst;
\* a step that has begun goes on to its selection and its burst whatever the
\* flag says (only a raised error ends it early); a burst with an operator
\* selected goes on with that operator's dispatch whatever the flag says; and
\* a loop that left for a shutdown, even one requested before the first step,
\* has dispatched work of the first operator.
C33_FlagTestedOnlyAfterStep ==
    /\ [][(exitReason # "shutdown" /\ exitReason' = "shutdown") =>
              (loopPc = "burst" /\ selOp = 0 /\ shutdownFlag /\ StepReturn)]_vars
    /\ [][(loopPc = "step" /\ loopPc' # "step") =>
              loopPc' = (IF failedOp = 0 THEN "select" ELSE "except")]_vars
    /\ [][(loopPc = "select" /\ loopPc' # "select") => loopPc' = "burst"]_vars
    /\ [][(loopPc = "burst" /\ selOp # 0 /\ (selOp' # selOp \/ loopPc' # loopPc)) =>
              /\ loopPc' = "burst"
              /\ dispatched' = dispatched + 1
              /\ inq'[selOp] = inq[selOp] - 1
              /\ active'[selOp] = active[selOp] + 1]_vars
    /\ [](exitReason = "shutdown" => inq[1] < NumInputs)

\* shutdown() was called before execute() and set the flag; the loop, started
\* afterwards, made its one step, dispatched from the first operator's
\* queue and only then left for the shutdown.
C33_Witness ==
    /\ joinRaised
    /\ execState = "started"
    /\ exitReason = "shutdown"
    /\ loopPc = "done"
    /\ inq[1] < NumInputs
    /\ SumTo(active, NumOps) + SumTo(ready, NumOps) >= 1

\* ------------------------------------------- dispatch after the teardown
\* C34 as stated: no operator is dispatched after its shutdown hook has been
\* invoked.
C34_NoDispatchAfterHook ==
    [][\A i \in Ops : (opShutdowns[i] >= 1 /\ loopPc = "burst") => inq'[i] >= inq[i]]_vars

\* C34 amended: an operator whose shutdown hook has been invoked is
\* dispatched only by the scheduling step that was under way when the
\* teardown ran (the flag is set, the loop is in that step's burst); no
\* scheduling step begins once a hook has been invoked.
C34_DispatchAfterHookOnlyInStepUnderWay ==
    /\ [][(loopPc # "step" /\ loopPc' = "step") =>
              \A i \in Ops : opShutdowns[i] = 0]_vars
    /\ [][\A i \in Ops :
              (opShutdowns[i] >= 1 /\ inq'[i] < inq[i]) =>
                  (shutdownFlag /\ loopPc = "burst" /\ selOp = i /\ Dispatch)]_vars

\* The wait of shutdown() timed out and the teardown ran while the loop was
\* inside a step; the loop has since dispatched in that step's burst and has
\* selected, for its next dispatch, an operator whose hook was invoked.
C34_Witness ==
    /\ teardownCount = 1
    /\ loopPc = "burst"
    /\ dispatched >= 1
    /\ selOp # 0
    /\ opShutdowns[selOp] = 1
    /\ inq[selOp] >= 1

\* ------------------------------------- shutdown() on an unstarted executor
\* C35: a thread waiting in shutdown() has already set the flag and holds the
\* lock; on an executor whose loop thread was not started (before execute(),
\* or after a failed validation) a shutdown() call that set the flag and is
\* over has failed in its wait; and once a call has failed so, the flag stays
\* set, no teardown runs and no hook is invoked, the lock is free, and no
\* later call gets past the test of the flag.
C35_ShutdownOnUnstartedExecutor ==
    /\ \A t \in Threads :
          shPc[t] \in {"join", "teardown"} => (shutdownFlag /\ lockOwner = t)
    /\ (execState # "started" /\ shutdownFlag /\ lockOwner = "none") => joinRaised
    /\ joinRaised =>
          /\ shutdownFlag
          /\ teardownCount = 0
          /\ \A i \in Ops : opShutdowns[i] = 0
          /\ ~finalStats.set
          /\ lockOwner = "none"
          /\ \A t \in Threads : shPc[t] \in {"idle", "acquire"}

\* shutdown() was called before execute() and failed in join(); the executor
\* was started afterwards, the loop ran to its end marker, and the later
\* shutdown() call of the consumer's get_next returned without a teardown.
C35_Witness ==
    /\ joinRaised
    /\ calls = 1
    /\ execState = "started"
    /\ loopPc = "done"
    /\ ConsumerGotEndOfStream
    /\ shPc = [t \in Threads |-> "idle"]
    /\ teardownCount = 0

\* ------------------------------------------------- the order of validation
Unsupported == { i \in Ops : NeedsCpuAndGpu(i) \/ NeedsIncMemory(i) }

FirstOf(S) == CHOOSE i \in S : \A j \in S : i <= j

\* C36: validation reports the unsupported incremental usage of the first
\* operator, in topology order, that has one, the cpu-and-gpu rule before the
\* memory rule for that operator; the limits-exceeded error is reported only
\* when no operator has an unsupported incremental usage, so a topology that
\* breaks a rule of each kind fails as unsupported.
C36_ValidationOrder ==
    execState # "new" =>
        /\ Unsupported # {} =>
             /\ execState = "failed"
             /\ validated.err = "NotImplementedError"
             /\ validated.why = (IF NeedsCpuAndGpu(FirstOf(Unsupported))
                                 THEN "cpu_and_gpu" ELSE "memory")
        /\ validated.err = "ValueError" <=> (Unsupported = {} /\ BaseExceedsLimits)
        /\ validated.err = "ok" <=> (Unsupported = {} /\ ~BaseExceedsLimits)

\* The first operator's incremental usage has memory only, the later ones'
\* have cpu, gpu and memory, and the base usage exceeds the limits: the
\* error reported is the first operator's.
C36_Witness ==
    /\ execState = "failed"
    /\ BaseExceedsLimits
    /\ NeedsIncMemory(1)
    /\ ~NeedsCpuAndGpu(1)
    /\ NeedsCpuAndGpu(NumOps)
    /\ NeedsIncMemory(NumOps)
    /\ validated.err = "NotImplementedError"
    /\ validated.why = "memory"

=============================================================================
